---- MODULE Spec2Model ----
(***************************************************************************)
(* Degrees of separation (degrees/degrees.py): load_data, the name         *)
(* resolver person_id_for_name, neighbors_for_person and the frontier      *)
(* search shortest_path with its path reconstruction checkForTargetPerson. *)
(*                                                                         *)
(* Identifiers (the strings of the CSV id columns) are modelled as         *)
(* positive integers; Python's None for an identifier, a parent or an      *)
(* action is 0.  Names are sequences of one-character strings so that      *)
(* str.lower() is computed character by character.  The attributes birth,  *)
(* title and year are stored by load_data and only printed; they are left  *)
(* out of the tables.                                                      *)
(***************************************************************************)
EXTENDS FiniteSets, Integers, Sequences, TLC

\* ---------------------------------------------------------------- bounds
\* Largest person id / movie id a row of the CSV files of Spec may carry.
MaxPersonId == 2
MaxMovieId == 1
\* Number of rows of stars.csv read by load_data in Spec.
MaxStarsRows == 2
\* Number of people of the catalogue the datasets of SpecSearch are cut from.
NumPeople == 5
\* Number of calls of shortest_path on the same dataset in SpecSearch.
MaxRuns == 2

\* ---------------------------------------------------------------- values
None == 0
\* "solution is None" / "path is None": the absent (movies, people) tuple.
NoSolution == << >>

PersonIds == 1..MaxPersonId
MovieIds == 1..MaxMovieId
\* What the user may type at "Intended Person ID: ".
EnteredIds == 1..(MaxPersonId + 1)

\* Display names found in people.csv and names typed at the "Name: " prompt.
DisplayNames == { <<"A", "l">>, <<"B", "o">> }
InputNames == DisplayNames \cup { <<"a", "l">>, <<"A", "L">>, <<"b", "O">>, <<"E", "d">> }

\* ---------------------------------------------------------------- str.lower
UpperChars == <<"A", "B", "D", "E", "L", "O">>
LowerChars == <<"a", "b", "d", "e", "l", "o">>

LowerChar(c) ==
    IF \E k \in DOMAIN UpperChars : UpperChars[k] = c
    THEN LowerChars[CHOOSE k \in DOMAIN UpperChars : UpperChars[k] = c]
    ELSE c

lower(s) == [i \in DOMAIN s |-> LowerChar(s[i])]

\* ---------------------------------------------------------------- dicts
\* d[k] = v on a Python dict: adds the key or overwrites its value.
Put(d, k, v) == [x \in (DOMAIN d) \cup {k} |-> IF x = k THEN v ELSE d[x]]
EmptyDict == << >>

\* ---------------------------------------------------------------- load_data
\* One row of people.csv: people[id] = {name, movies: set()}.
PeopleAfterPeopleRow(pp, row) ==
    Put(pp, row.id, [name |-> row.name, movies |-> {}])

\* One row of people.csv: the name index, keyed by the lower-cased name.
NamesAfterPeopleRow(nm, row) ==
    IF lower(row.name) \notin DOMAIN nm
    THEN Put(nm, lower(row.name), {row.id})
    ELSE Put(nm, lower(row.name), nm[lower(row.name)] \cup {row.id})

\* One row of movies.csv: movies[id] = {stars: set()}.
MoviesAfterMoviesRow(mv, row) ==
    Put(mv, row.id, [stars |-> {}])

\* One row of stars.csv, first statement of the try block:
\* people[person_id]["movies"].add(movie_id); KeyError leaves people as it is.
PeopleAfterStarsRow(pp, row) ==
    IF row.person_id \in DOMAIN pp
    THEN [pp EXCEPT ![row.person_id].movies = @ \cup {row.movie_id}]
    ELSE pp

\* Variant: the star added without the person having been looked up first.
MoviesAfterStarsRowUnchecked(pp, mv, row) ==
    IF row.movie_id \in DOMAIN mv
    THEN [mv EXCEPT ![row.movie_id].stars = @ \cup {row.person_id}]
    ELSE mv

\* One row of stars.csv, second statement of the try block, reached only when
\* the first did not raise: movies[movie_id]["stars"].add(person_id).
MoviesAfterStarsRow(pp, mv, row) ==
    IF row.person_id \in DOMAIN pp /\ row.movie_id \in DOMAIN mv
    THEN [mv EXCEPT ![row.movie_id].stars = @ \cup {row.person_id}]
    ELSE mv

\* ---------------------------------------------------------------- person_id_for_name
\* Variant: the typed name looked up as typed.
CandidatesNoLower(nm, name) ==
    IF name \in DOMAIN nm THEN nm[name] ELSE {}

\* names.get(name.lower(), set())
Candidates(nm, name) ==
    IF lower(name) \in DOMAIN nm THEN nm[lower(name)] ELSE {}

\* The id returned for the typed name; entered is the answer to the
\* "Intended Person ID: " prompt, read only when the name is ambiguous.
person_id_for_name(nm, name, entered) ==
    LET person_ids == Candidates(nm, name) IN
    IF Cardinality(person_ids) = 0 THEN None
    ELSE IF Cardinality(person_ids) > 1
         THEN IF entered \in person_ids THEN entered ELSE None
         ELSE CHOOSE p \in person_ids : TRUE

\* ---------------------------------------------------------------- neighbors_for_person
\* movies[movie_id] raises KeyError for a movie id that is no key of movies.
\* So does people[person_id] for a person id that is no key of people.
NeighborsRaises(pp, mv, person_id) ==
    \/ person_id \notin DOMAIN pp
    \/ \E m \in pp[person_id].movies : m \notin DOMAIN mv

\* Variant: every film of the person paired with every star of any of them.
neighbors_for_person_crossed(pp, mv, person_id) ==
    { <<m, p>> : m \in pp[person_id].movies,
                 p \in UNION { mv[x].stars : x \in pp[person_id].movies } }

\* The set of (movie_id, person_id) pairs, the person itself included.
neighbors_for_person(pp, mv, person_id) ==
    UNION { { <<m, p>> : p \in mv[m].stars } : m \in pp[person_id].movies }

\* ---------------------------------------------------------------- util: Node, StackFrontier
\* Node(state, parent, action); a parent is the handle of a node of the arena.
Node(state, parent, action) ==
    [state |-> state, parent |-> parent, action |-> action]

\* frontier.add(node): appended at the end.
FrontierAdd(f, n) == Append(f, n)

\* frontier.empty()
empty(f) == Len(f) = 0

\* frontier.contains_state(state)
contains_state(nds, f, state) ==
    \E i \in DOMAIN f : nds[f[i]].state = state

\* QueueFrontier.remove(): the node added first.
QueueRemoved(f) == f[1]
QueueRest(f) == SubSeq(f, 2, Len(f))

\* StackFrontier.remove(): the node added last.
StackRemoved(f) == f[Len(f)]
StackRest(f) == SubSeq(f, 1, Len(f) - 1)

\* Variant: remove() called without the emptiness check before it.
LoopRaisesNever(f) == FALSE

\* "if frontier.empty(): raise Exception("No solution")" at the top of the loop.
LoopRaises(f) == empty(f)

\* Variant: a neighbour is new when it is not pending, explored or not.
IsNewIgnoringExplored(nds, f, explored, personId) ==
    ~contains_state(nds, f, personId)

\* Variant: a neighbour is new when it is not explored, pending or not.
IsNewIgnoringFrontier(nds, f, explored, personId) ==
    personId \notin explored

\* "not frontier.contains_state(personId) and personId not in exploredPeople"
IsNew(nds, f, explored, personId) ==
    ~contains_state(nds, f, personId) /\ personId \notin explored

\* shortest_path builds its frontier with StackFrontier().
FrontierRemoved(f) == StackRemoved(f)
FrontierRest(f) == StackRest(f)

\* ---------------------------------------------------------------- checkForTargetPerson
\* The handles visited by "while node.parent is not None: ...; node = node.parent".
RECURSIVE ParentWalk(_, _)
ParentWalk(nds, n) ==
    IF nds[n].parent = None THEN << >>
    ELSE <<n>> \o ParentWalk(nds, nds[n].parent)

Reverse(s) == [i \in DOMAIN s |-> s[Len(s) + 1 - i]]

\* Variant: the goal test made on the node being expanded.
checkForTargetPersonLate(nds, currentPersonId, targetId, n) ==
    IF nds[n].state = targetId
    THEN LET walk == ParentWalk(nds, n) IN
         << Reverse([i \in DOMAIN walk |-> nds[walk[i]].action]),
            Reverse([i \in DOMAIN walk |-> nds[walk[i]].state]) >>
    ELSE NoSolution

\* (movies, people) when currentPersonId is the target, None otherwise.  The
\* walk starts at the node being expanded, the parent of the discovered person.
checkForTargetPerson(nds, currentPersonId, targetId, n) ==
    IF currentPersonId = targetId
    THEN LET walk == ParentWalk(nds, n) IN
         << Reverse([i \in DOMAIN walk |-> nds[walk[i]].action]),
            Reverse([i \in DOMAIN walk |-> nds[walk[i]].state]) >>
    ELSE NoSolution

\* Variant: the two lists assigned to the module-level names.
GlobalsAfterCheckRebound(pp, mv, currentPersonId, targetId) ==
    IF currentPersonId = targetId THEN << << >>, << >> >> ELSE <<pp, mv>>

\* The global tables <<people, movies>> after a call of checkForTargetPerson:
\* its "movies = []" and "people = []" bind locals of the function.
GlobalsAfterCheck(pp, mv, currentPersonId, targetId) == <<pp, mv>>

\* ---------------------------------------------------------------- state
VARIABLES
    names,            \* global names: lower-cased name -> set of person ids
    people,           \* global people: person id -> [name, movies]
    movies,           \* global movies: movie id -> [stars]
    pc,               \* position of the program
    starsRead,        \* rows of stars.csv read so far
    source, target,   \* the ids main resolved and passes to shortest_path
    nodes,            \* arena of the Node objects created by the running call
    frontier,         \* StackFrontier.frontier: handles, oldest first
    exploredPeople,   \* shortest_path: exploredPeople
    numExploredNodes, \* shortest_path: numExploredNodes
    node,             \* shortest_path: node, the node being expanded
    todo,             \* neighbours the for loop has not visited yet
    path,             \* the value shortest_path returned
    raised,           \* the exception that ended the program or the call
    degrees,          \* main: degrees
    prev              \* outcomes of the earlier calls of shortest_path

dataset == <<names, people, movies>>
search == <<nodes, frontier, exploredPeople, numExploredNodes, node, todo>>
vars == <<names, people, movies, pc, starsRead, source, target, nodes, frontier,
          exploredPeople, numExploredNodes, node, todo, path, raised, degrees, prev>>

NoSearch ==
    /\ nodes = << >>
    /\ frontier = << >>
    /\ exploredPeople = {}
    /\ numExploredNodes = 0
    /\ node = None
    /\ todo = {}
    /\ path = NoSolution
    /\ raised = "none"
    /\ degrees = None
    /\ prev = << >>

\* The module-level tables before load_data runs.
Init ==
    /\ names = EmptyDict
    /\ people = EmptyDict
    /\ movies = EmptyDict
    /\ pc = "people"
    /\ starsRead = 0
    /\ source = None
    /\ target = None
    /\ NoSearch

\* ---------------------------------------------------------------- load_data, as steps
\* One iteration of the loop over people.csv.  Nothing checks the id column:
\* a row whose id an earlier row carried replaces that person (line 27) and
\* leaves the earlier name's entry of the index as it was (lines 32-35).
LoadPeopleRow ==
    /\ pc = "people"
    /\ \E id \in PersonIds, name \in DisplayNames :
          LET row == [id |-> id, name |-> name] IN
          /\ people' = PeopleAfterPeopleRow(people, row)
          /\ names' = NamesAfterPeopleRow(names, row)
    /\ UNCHANGED <<movies, pc, starsRead, source, target, search, path, raised, degrees, prev>>

\* One iteration of the loop over movies.csv.  A row whose id an earlier row
\* carried assigns the same entry again (the star sets are still empty).
LoadMoviesRow ==
    /\ pc = "movies"
    /\ \E id \in MovieIds :
          movies' = MoviesAfterMoviesRow(movies, [id |-> id])
    /\ UNCHANGED <<names, people, pc, starsRead, source, target, search, path, raised, degrees, prev>>

\* One iteration of the loop over stars.csv: the try block and its except.
LoadStarsRow ==
    /\ pc = "stars"
    /\ starsRead < MaxStarsRows
    /\ \E person_id \in PersonIds, movie_id \in MovieIds :
          LET row == [person_id |-> person_id, movie_id |-> movie_id] IN
          /\ people' = PeopleAfterStarsRow(people, row)
          /\ movies' = MoviesAfterStarsRow(people, movies, row)
    /\ starsRead' = starsRead + 1
    /\ UNCHANGED <<names, pc, source, target, search, path, raised, degrees, prev>>

\* The reader of the current file is exhausted: load_data goes on to the next
\* file, and after the last one returns to main.
EndOfFile ==
    /\ pc \in {"people", "movies", "stars"}
    /\ pc' = CASE pc = "people" -> "movies"
               [] pc = "movies" -> "stars"
               [] pc = "stars" -> "source"
    /\ starsRead' = 0
    /\ UNCHANGED <<dataset, source, target, search, path, raised, degrees, prev>>

\* ---------------------------------------------------------------- main: name resolution
\* source = person_id_for_name(input("Name: ")); sys.exit when it is None.
ResolveSource ==
    /\ pc = "source"
    /\ \E name \in InputNames, entered \in EnteredIds :
          /\ source' = person_id_for_name(names, name, entered)
          /\ pc' = IF source' = None THEN "exit" ELSE "target"
    /\ UNCHANGED <<dataset, starsRead, target, search, path, raised, degrees, prev>>

\* target = person_id_for_name(input("Name: ")); sys.exit when it is None.
ResolveTarget ==
    /\ pc = "target"
    /\ \E name \in InputNames, entered \in EnteredIds :
          /\ target' = person_id_for_name(names, name, entered)
          /\ pc' = IF target' = None THEN "exit" ELSE "call"
    /\ UNCHANGED <<dataset, starsRead, source, search, path, raised, degrees, prev>>

\* ---------------------------------------------------------------- shortest_path, as steps
\* Entry of shortest_path: root node, frontier holding it, empty explored set.
Call ==
    /\ pc = "call"
    /\ nodes' = <<Node(source, None, None)>>
    /\ frontier' = FrontierAdd(<< >>, 1)
    /\ exploredPeople' = {}
    /\ numExploredNodes' = 0
    /\ pc' = "loop"
    /\ UNCHANGED <<dataset, starsRead, source, target, node, todo, path, raised, degrees, prev>>

\* Top of the while loop with frontier.empty(): raise Exception("No solution").
LoopEmpty ==
    /\ pc = "loop"
    /\ LoopRaises(frontier)
    /\ raised' = "Exception"
    /\ pc' = "raised"
    /\ UNCHANGED <<dataset, starsRead, source, target, search, path, degrees, prev>>

\* Top of the while loop otherwise: remove a node (StackFrontier.remove
\* raises Exception("empty frontier") when there is none), mark its state
\* explored and compute its neighbours (which raises KeyError on a dangling
\* movie id).
Remove ==
    /\ pc = "loop"
    /\ ~LoopRaises(frontier)
    /\ IF empty(frontier)
       THEN /\ raised' = "empty frontier"
            /\ pc' = "raised"
            /\ UNCHANGED search
       ELSE /\ node' = FrontierRemoved(frontier)
            /\ frontier' = FrontierRest(frontier)
            /\ numExploredNodes' = numExploredNodes + 1
            /\ exploredPeople' = exploredPeople \cup {nodes[node'].state}
            /\ nodes' = nodes
            /\ IF NeighborsRaises(people, movies, nodes[node'].state)
               THEN /\ raised' = "KeyError"
                    /\ pc' = "raised"
                    /\ todo' = {}
               ELSE /\ raised' = raised
                    /\ todo' = neighbors_for_person(people, movies, nodes[node'].state)
                    /\ pc' = IF todo' = {} THEN "loop" ELSE "for"
    /\ UNCHANGED <<dataset, starsRead, source, target, path, degrees, prev>>

\* One iteration of "for co_actor in moviesActorStarredIn": the set is
\* iterated in an order the program does not control.
Visit ==
    /\ pc = "for"
    /\ \E co_actor \in todo :
          LET movieId == co_actor[1]
              personId == co_actor[2]
              solution == checkForTargetPerson(nodes, personId, target, node)
          IN
          /\ todo' = todo \ {co_actor}
          /\ people' = IF IsNew(nodes, frontier, exploredPeople, personId)
                       THEN GlobalsAfterCheck(people, movies, personId, target)[1]
                       ELSE people
          /\ movies' = IF IsNew(nodes, frontier, exploredPeople, personId)
                       THEN GlobalsAfterCheck(people, movies, personId, target)[2]
                       ELSE movies
          /\ IF IsNew(nodes, frontier, exploredPeople, personId)
             THEN IF solution # NoSolution
                  THEN /\ path' = solution
                       /\ pc' = "returned"
                       /\ UNCHANGED <<nodes, frontier>>
                  ELSE /\ nodes' = Append(nodes, Node(personId, node, movieId))
                       /\ frontier' = FrontierAdd(frontier, Len(nodes) + 1)
                       /\ pc' = IF todo' = {} THEN "loop" ELSE "for"
                       /\ path' = path
             ELSE /\ pc' = IF todo' = {} THEN "loop" ELSE "for"
                  /\ UNCHANGED <<nodes, frontier, path>>
    /\ UNCHANGED <<names, starsRead, source, target, exploredPeople, numExploredNodes,
                   node, raised, degrees, prev>>

\* ---------------------------------------------------------------- main: the report
\* "if path is None: ... else: degrees = len(path); ...;
\*  path = [(None, source)] + path", which raises TypeError for the tuple
\* shortest_path returns.
Report ==
    /\ pc = "returned"
    /\ IF path = NoSolution
       THEN /\ pc' = "exit"
            /\ UNCHANGED <<degrees, raised>>
       ELSE /\ degrees' = Len(path)
            /\ raised' = "TypeError"
            /\ pc' = "raised"
    /\ UNCHANGED <<dataset, starsRead, source, target, search, path, prev>>

\* Number of (movie_id, person_id) steps of a returned value.
Steps(p) == IF p = NoSolution THEN 0 ELSE Len(p[1])

\* A caller calls shortest_path again with the same arguments: the outcome of
\* the finished call is kept, its frontier and explored set are dropped.
CallAgain ==
    /\ pc \in {"returned", "raised"}
    /\ raised # "TypeError"
    /\ Len(prev) + 1 < MaxRuns
    /\ prev' = Append(prev, [kind |-> IF pc = "returned" THEN "returned" ELSE raised,
                             steps |-> Steps(path)])
    /\ pc' = "call"
    /\ nodes' = << >>
    /\ frontier' = << >>
    /\ exploredPeople' = {}
    /\ numExploredNodes' = 0
    /\ node' = None
    /\ todo' = {}
    /\ path' = NoSolution
    /\ raised' = "none"
    /\ UNCHANGED <<dataset, starsRead, source, target, degrees>>

\* ---------------------------------------------------------------- specifications
Next ==
    \/ LoadPeopleRow
    \/ LoadMoviesRow
    \/ LoadStarsRow
    \/ EndOfFile
    \/ ResolveSource
    \/ ResolveTarget
    \/ Call
    \/ LoopEmpty
    \/ Remove
    \/ Visit
    \/ Report

\* The whole program: load_data, the two name prompts, one search, the report.
Spec == Init /\ [][Next]_vars

\* ---------------------------------------------------------------- load_data, as a function
RECURSIVE LoadPeopleCsv(_, _)
LoadPeopleCsv(ds, rows) ==
    IF rows = << >> THEN ds
    ELSE LoadPeopleCsv([ds EXCEPT !.people = PeopleAfterPeopleRow(ds.people, Head(rows)),
                                  !.names = NamesAfterPeopleRow(ds.names, Head(rows))],
                       Tail(rows))

RECURSIVE LoadMoviesCsv(_, _)
LoadMoviesCsv(ds, rows) ==
    IF rows = << >> THEN ds
    ELSE LoadMoviesCsv([ds EXCEPT !.movies = MoviesAfterMoviesRow(ds.movies, Head(rows))],
                       Tail(rows))

RECURSIVE LoadStarsCsv(_, _)
LoadStarsCsv(ds, rows) ==
    IF rows = << >> THEN ds
    ELSE LoadStarsCsv([ds EXCEPT !.people = PeopleAfterStarsRow(ds.people, Head(rows)),
                                 !.movies = MoviesAfterStarsRow(ds.people, ds.movies, Head(rows))],
                      Tail(rows))

\* The tables load_data leaves behind for the three files.
load_data(peopleCsv, moviesCsv, starsCsv) ==
    LoadStarsCsv(
        LoadMoviesCsv(
            LoadPeopleCsv([names |-> EmptyDict, people |-> EmptyDict, movies |-> EmptyDict],
                          peopleCsv),
            moviesCsv),
        starsCsv)

\* ---------------------------------------------------------------- the catalogue of SpecSearch
\* People 1..NumPeople; film m <= NumPeople stars m and its successor on the
\* ring 1, 2, ..., NumPeople, 1; film NumPeople + 1 stars 1 and 2 once more.
NumMovies == NumPeople + 1

Cast(m) ==
    IF m <= NumPeople THEN {m, (m % NumPeople) + 1} ELSE {1, 2}

RECURSIVE Ascending(_)
Ascending(S) ==
    IF S = {} THEN << >>
    ELSE LET x == CHOOSE x \in S : \A y \in S : x <= y
         IN <<x>> \o Ascending(S \ {x})

RECURSIVE StarsRowsOf(_)
StarsRowsOf(ms) ==
    IF ms = << >> THEN << >>
    ELSE LET cast == Ascending(Cast(Head(ms)))
         IN [i \in DOMAIN cast |-> [person_id |-> cast[i], movie_id |-> Head(ms)]]
            \o StarsRowsOf(Tail(ms))

CataloguePeopleCsv ==
    [i \in 1..NumPeople |-> [id |-> i, name |-> IF i % 2 = 1 THEN <<"A", "l">> ELSE <<"B", "o">>]]

\* The dataset loaded from the films of the catalogue that are in stock.
CatalogueData(chosen) ==
    load_data(CataloguePeopleCsv,
              [i \in DOMAIN Ascending(chosen) |-> [id |-> Ascending(chosen)[i]]],
              StarsRowsOf(Ascending(chosen)))

\* main has loaded a part of the catalogue and resolved two names to ids of
\* the people table; shortest_path is about to be called.
InitSearch ==
    /\ \E chosen \in SUBSET (1..NumMovies) :
          /\ names = CatalogueData(chosen).names
          /\ people = CatalogueData(chosen).people
          /\ movies = CatalogueData(chosen).movies
    /\ pc = "call"
    /\ starsRead = 0
    /\ source \in 1..NumPeople
    /\ target \in 1..NumPeople
    /\ NoSearch

NextSearch ==
    \/ Call
    \/ LoopEmpty
    \/ Remove
    \/ Visit
    \/ Report
    \/ CallAgain

\* The search on a loaded dataset, called up to MaxRuns times.
SpecSearch == InitSearch /\ [][NextSearch]_vars

\* The dataset loaded when stars.csv lists the films chosen and movies.csv
\* lacks one of them.
CatalogueDataLost(chosen, lost) ==
    load_data(CataloguePeopleCsv,
              [i \in DOMAIN Ascending(chosen \ {lost}) |-> [id |-> Ascending(chosen \ {lost})[i]]],
              StarsRowsOf(Ascending(chosen)))

\* As InitSearch, on a dataset loaded from files with a film missing.
InitDangling ==
    /\ \E chosen \in SUBSET (1..NumMovies) : \E lost \in chosen :
          /\ names = CatalogueDataLost(chosen, lost).names
          /\ people = CatalogueDataLost(chosen, lost).people
          /\ movies = CatalogueDataLost(chosen, lost).movies
    /\ pc = "call"
    /\ starsRead = 0
    /\ source \in 1..NumPeople
    /\ target \in 1..NumPeople
    /\ NoSearch

\* The search on a dataset loaded from files with a film missing.
SpecDangling == InitDangling /\ [][NextSearch]_vars

\* ---------------------------------------------------------------- the co-star graph
\* The people who star with p in some film (p excluded).
CoStars(p) ==
    { q \in DOMAIN people \ {p} :
        \E m \in DOMAIN movies : p \in movies[m].stars /\ q \in movies[m].stars }

RECURSIVE Ball(_, _)
Ball(p, k) ==
    IF k = 0 THEN {p}
    ELSE Ball(p, k - 1) \cup UNION { CoStars(q) : q \in Ball(p, k - 1) }

\* Number of co-star edges of a shortest chain from a to b, -1 when none.
Distance(a, b) ==
    IF b \notin Ball(a, Cardinality(DOMAIN people)) THEN -1
    ELSE CHOOSE k \in 0..Cardinality(DOMAIN people) :
            b \in Ball(a, k) /\ (k = 0 \/ b \notin Ball(a, k - 1))

Running == pc \in {"call", "loop", "for"}
\* shortest_path has returned or raised and main has not gone on yet.
Finished == pc = "returned" \/ (pc = "raised" /\ raised # "TypeError")
Kind == IF pc = "returned" THEN "returned" ELSE raised

\* Depth of a node: the number of edges on its parent chain.
Depth(n) == Len(ParentWalk(nodes, n))

\* ---------------------------------------------------------------- claims
\* C1: for connected distinct source and target the returned path has as
\* many (movie_id, person_id) steps as the graph distance of the two.
C1_ShortestPath ==
    (pc = "returned" /\ source # target)
        => Steps(path) = Distance(source, target)

\* C2: when target cannot be reached from source the search ends by
\* returning None, never by raising.
C2_NoPathIsReturned ==
    (~Running /\ source # None /\ target # None /\ source # target
       /\ Distance(source, target) = -1)
        => (raised = "none" /\ (pc = "returned" => path = NoSolution))

\* C3: a returned path runs from source to target: it has a last pair, the
\* person of its last pair is target, the person of the first pair starred
\* with source in the first pair's film, and each later pair's person starred
\* with the pair before it in the later pair's film.
C3_PathRunsSourceToTarget ==
    pc = "returned" =>
        /\ Len(path) = 2
        /\ Len(path[1]) = Len(path[2])
        /\ Len(path[2]) >= 1
        /\ path[2][Len(path[2])] = target
        /\ \A i \in DOMAIN path[2] :
              /\ path[1][i] \in DOMAIN movies
              /\ path[2][i] \in movies[path[1][i]].stars
              /\ (IF i = 1 THEN source ELSE path[2][i - 1]) \in movies[path[1][i]].stars

\* C4: the length of the returned value, and the degrees main reports, equal
\* the number of edges from the root to the discovered target: the depth of
\* the expanded node plus the edge to the target.
C4_LengthIsEdges ==
    /\ pc = "returned" => Len(path) = Depth(node) + 1
    /\ degrees # None => degrees = Depth(node) + 1

\* C5: every call of shortest_path with the same arguments on the same
\* dataset ends the same way and, when it returns a path, with a path of the
\* same number of steps, whatever the iteration order of the neighbour sets.
C5_SameLengthEveryRun ==
    Finished =>
        \A i \in DOMAIN prev : prev[i].kind = Kind /\ prev[i].steps = Steps(path)

\* C6: no step of a call of shortest_path changes names, people or movies.
C6_DatasetUnchanged ==
    [][(Running \/ Finished) => dataset' = dataset]_vars

\* A call returned a path of at least one step over films and stars that are
\* still in the tables.
C6_Witness ==
    /\ pc = "returned"
    /\ Steps(path) >= 1
    /\ \E m \in DOMAIN movies : Cardinality(movies[m].stars) >= 2

\* The two names consist of the same letters, in whatever case.
SameLetter(c, d) ==
    c = d \/ \E k \in DOMAIN UpperChars : {c, d} = {UpperChars[k], LowerChars[k]}
DifferOnlyInCase(n1, n2) ==
    Len(n1) = Len(n2) /\ \A i \in DOMAIN n1 : SameLetter(n1[i], n2[i])

\* The people of the table whose name is the typed name up to letter case.
Having(name) ==
    { p \in DOMAIN people : DifferOnlyInCase(people[p].name, name) }

\* C7: wherever main calls person_id_for_name, a name nobody has resolves to None, a name one person has to that
\* person, a name several have to the entered id when it is one of them and
\* to None otherwise.  (The people having a name are read from the people
\* table, the candidates from the index load_data built.)
C7_NameResolution ==
    pc \in {"source", "target"} =>
        \A name \in InputNames :
            LET having == Having(name) IN
            \A entered \in EnteredIds :
                LET r == person_id_for_name(names, name, entered) IN
                /\ having = {} => r = None
                /\ Cardinality(having) = 1 => r \in having
                /\ Cardinality(having) > 1 =>
                      r = (IF entered \in having THEN entered ELSE None)

\* C8: wherever main calls person_id_for_name, two typed names that differ only in letter case look up the same
\* candidate set and resolve to the same id for the same entered id.
C8_CaseInsensitive ==
    pc \in {"source", "target"} =>
        \A n1 \in InputNames, n2 \in InputNames :
            DifferOnlyInCase(n1, n2) =>
                /\ Candidates(names, n1) = Candidates(names, n2)
                /\ \A entered \in EnteredIds :
                      person_id_for_name(names, n1, entered)
                          = person_id_for_name(names, n2, entered)

\* The source was resolved from a name that has a differently cased variant
\* among the typed names, neither of them being the stored display name.
C8_Witness ==
    /\ pc = "target"
    /\ \E n1 \in InputNames, n2 \in InputNames :
          /\ n1 # n2
          /\ DifferOnlyInCase(n1, n2)
          /\ source \in Candidates(names, n1)
          /\ people[source].name \notin {n1, n2}

\* C9: a stars row naming an absent person or an absent film is skipped
\* without effect, so every film of a person is a key of movies and
\* neighbors_for_person never raises.
C9_DanglingRowsSkipped ==
    /\ \A p \in DOMAIN people : people[p].movies \subseteq DOMAIN movies
    /\ raised # "KeyError"

\* C10: every star of every film is a key of people, and so is the state of
\* every node shortest_path creates.
C10_StarsArePeople ==
    /\ \A m \in DOMAIN movies : movies[m].stars \subseteq DOMAIN people
    /\ \A i \in DOMAIN nodes : nodes[i].state \in DOMAIN people

\* The only stars row read so far names a film of the table and left every
\* star set empty: it named a person absent from people and was skipped.
C10_Witness ==
    /\ pc = "stars"
    /\ starsRead = 1
    /\ DOMAIN movies = MovieIds
    /\ \A m \in DOMAIN movies : movies[m].stars = {}

\* The states of the nodes the frontier holds.
FrontierStates == { nodes[frontier[i]].state : i \in DOMAIN frontier }

\* C11: the states of the frontier nodes and the explored set are disjoint,
\* the state of the node being expanded is explored and no longer pending.
C11_FrontierExploredDisjoint ==
    /\ FrontierStates \cap exploredPeople = {}
    /\ (Running /\ node # None) =>
          /\ nodes[node].state \in exploredPeople
          /\ \A i \in DOMAIN frontier : frontier[i] # node

\* The loop is visiting neighbours with two people explored and others
\* pending, an explored neighbour having been passed over already.
C11_Witness ==
    /\ pc = "for"
    /\ Cardinality(exploredPeople) >= 2
    /\ frontier # << >>
    /\ \E c \in neighbors_for_person(people, movies, nodes[node].state) \ todo :
          c[2] \in exploredPeople /\ c[2] # nodes[node].state

\* C12: for source different from target no node of the target is ever
\* created or put into the frontier, and the step that examines the target as
\* a neighbour that is neither pending nor explored returns at once: nothing
\* is added to the frontier and nothing more is removed.
C12_EarlyGoalCheck ==
    [][source # target =>
          /\ \A i \in DOMAIN nodes' : nodes'[i].state # target
          /\ (/\ pc = "for"
              /\ \E c \in todo \ todo' : c[2] = target
              /\ IsNew(nodes, frontier, exploredPeople, target))
                => /\ pc' = "returned"
                   /\ path' # NoSolution
                   /\ UNCHANGED <<nodes, frontier, exploredPeople, numExploredNodes, node>>]_vars

\* The call returned on meeting the target while neighbours of the expanded
\* node were still unvisited and other nodes were still pending.
C12_Witness ==
    /\ pc = "returned"
    /\ source # target
    /\ todo # {}
    /\ frontier # << >>

\* C13: when target is a direct co-star of source (and differs from it) only
\* the root is ever removed from the frontier, every node created is the root
\* or a child of the root, and the call ends by returning while the root is
\* being expanded.
C13_DirectCoStar ==
    (source # target /\ target \in CoStars(source)) =>
        /\ numExploredNodes <= 1
        /\ \A i \in DOMAIN nodes : nodes[i].parent \in {None, 1}
        /\ \A i \in DOMAIN nodes : Depth(i) <= 1
        /\ pc # "loop" \/ numExploredNodes = 0
        /\ Finished => (pc = "returned" /\ numExploredNodes = 1 /\ node = 1)

\* C14: frontier.remove() is never executed on an empty frontier: no call
\* ends with the "empty frontier" exception of remove(), and every step that
\* removes a node starts from a frontier that holds one.
C14_RemoveOnlyWhenNonEmpty ==
    [][/\ raised' # "empty frontier"
       /\ (pc = "loop" /\ pc' # "loop" /\ raised' # "Exception") => frontier # << >>
       /\ numExploredNodes' = numExploredNodes + 1 => Len(frontier') = Len(frontier) - 1]_vars

\* The frontier ran empty after several removals and the check at the top of
\* the loop ended the call.
C14_Witness ==
    /\ pc = "raised"
    /\ raised = "Exception"
    /\ numExploredNodes >= 2
    /\ frontier = << >>

\* The states on the parent chain of a node, the node and the root included.
RECURSIVE ChainStates(_)
ChainStates(n) ==
    IF nodes[n].parent = None THEN <<nodes[n].state>>
    ELSE <<nodes[n].state>> \o ChainStates(nodes[n].parent)

\* The first node is the root (state source, no parent, no action) and the
\* only one without a parent; every other node has an earlier node as parent,
\* whose state is explored, and carries a film in which its state and its
\* parent's state both star; no state occurs twice on the chain from a node
\* to the root.
TreeShape ==
    /\ nodes # << >> => nodes[1] = Node(source, None, None)
    /\ \A i \in DOMAIN nodes \ {1} :
          /\ nodes[i].parent \in 1..(i - 1)
          /\ nodes[nodes[i].parent].state \in exploredPeople
          /\ nodes[i].action \in DOMAIN movies
          /\ nodes[i].state \in movies[nodes[i].action].stars
          /\ nodes[nodes[i].parent].state \in movies[nodes[i].action].stars
    /\ \A i \in DOMAIN nodes :
          Cardinality({ ChainStates(i)[k] : k \in DOMAIN ChainStates(i) })
              = Len(ChainStates(i))

\* C15: the nodes of a call form a tree rooted at the source: after every
\* step they have the shape above, a node, once created, is never changed,
\* and each node but the root is created with the node being expanded at
\* that moment as its parent.
C15_NodesFormTree ==
    [][/\ TreeShape'
       /\ nodes # << >> /\ nodes' # << >> =>
             /\ Len(nodes') \in {Len(nodes), Len(nodes) + 1}
             /\ SubSeq(nodes', 1, Len(nodes)) = nodes
             /\ Len(nodes') = Len(nodes) + 1 => nodes'[Len(nodes')].parent = node]_vars

\* A node two edges below the root exists.
C15_Witness ==
    /\ Running
    /\ \E i \in DOMAIN nodes : Depth(i) >= 2

\* More than any neighbour set has pairs.
Width == Cardinality(DOMAIN movies) * Cardinality(DOMAIN people) + 1

\* What is left to do of a running call: the people not yet removed from the
\* frontier, then the neighbours the for loop has not visited.
Remaining ==
    IF pc = "call" THEN (Cardinality(DOMAIN people) + 1) * Width
    ELSE (Cardinality(DOMAIN people) - numExploredNodes) * Width + Cardinality(todo)

\* C16: the call terminates, with a path or with the empty-frontier outcome:
\* every step of a running call makes Remaining, which is never negative,
\* smaller; each person is removed from the frontier at most once, so the
\* loop iterations never outnumber the people; and a call that has ended
\* has returned a path or raised the exception of the empty frontier.
C16_Terminates ==
    [][/\ (Running /\ Running') => (0 <= Remaining' /\ Remaining' < Remaining)
       /\ Running' =>
             /\ numExploredNodes' = Cardinality(exploredPeople')
             /\ numExploredNodes' <= Cardinality(DOMAIN people)
       /\ Finished' =>
             /\ numExploredNodes' = Cardinality(exploredPeople')
             /\ numExploredNodes' <= Cardinality(DOMAIN people)
             /\ Kind' \in {"returned", "Exception"}]_vars

\* C17: the frontier never holds two nodes of the same person.
C17_OneNodePerState ==
    \A i \in DOMAIN frontier, j \in DOMAIN frontier :
        nodes[frontier[i]].state = nodes[frontier[j]].state => i = j

\* The for loop has visited two pairs of the same co-star, from two films the
\* expanded person shares with them, and that co-star is pending.
C17_Witness ==
    /\ pc = "for"
    /\ \E c \in neighbors_for_person(people, movies, nodes[node].state) \ todo :
       \E d \in neighbors_for_person(people, movies, nodes[node].state) \ todo :
          /\ c[1] # d[1]
          /\ c[2] = d[2]
          /\ c[2] # nodes[node].state
          /\ contains_state(nodes, frontier, c[2])

\* C18: a call with source = target never returns a path: it ends with the
\* empty frontier, after exploring exactly the people connected to the source.
C18_SelfSearchFindsNothing ==
    source = target =>
        /\ pc # "returned"
        /\ path = NoSolution
        /\ Finished =>
              /\ raised = "Exception"
              /\ frontier = << >>
              /\ exploredPeople = Ball(source, Cardinality(DOMAIN people))

====
